---- MODULE Spec2Model ----
(***************************************************************************)
(* Model of the Sippy Re-Act agent: SippyAgent (sippy_agent/agent.py), the *)
(* /chat endpoint of SippyWebServer (sippy_agent/web_server.py) and the    *)
(* tools of sippy_agent/tools.                                             *)
(*                                                                         *)
(* Text is modelled as a sequence of tokens.  The marker tokens "Thought:",*)
(* "Action:", "Action Input:" and "Final Answer:" stand for those literal  *)
(* substrings, " " and "\n" for white space, "\"" for a double quote, and  *)
(* every other token for a run of text that contains none of them.         *)
(*                                                                         *)
(* The loop itself is the AgentExecutor that _create_agent_executor        *)
(* configures (agent.py:571-586): a single-action Re-Act agent, with       *)
(* max_iterations, max_execution_time, handle_parsing_errors=True and      *)
(* return_intermediate_steps=True, and the default early stopping method   *)
(* ("force").  SippyAgent.chat drives it with one invoke per turn.         *)
(***************************************************************************)
EXTENDS Integers, Sequences, FiniteSets, TLC

\* Largest --max-iterations value explored (cli.py:387-388).
MaxIter == 2

\* Largest --timeout value explored, in clock ticks (cli.py:389-390).
MaxTime == 2

\* Largest number of add_tool calls explored (agent.py:734-738).
MaxAdded == 1

\* Most tools registered after construction when the registry is checked
\* on its own.
MaxRegistered == 3

\* Longest completion, in tokens, that the parser is checked on.
MaxLen == 5

\* Most turns stored in the history of a command-line session.
MaxHistory == 2

(***************************************************************************)
(* Optional values (None / a value).                                       *)
(***************************************************************************)
None == [some |-> FALSE, val |-> <<>>]

Some(v) == [some |-> TRUE, val |-> v]

(***************************************************************************)
(* String helpers over token sequences.                                    *)
(***************************************************************************)
Whitespace == {" ", "\n"}

RECURSIVE LStrip(_, _)
LStrip(s, chars) ==
    IF s # <<>> /\ Head(s) \in chars THEN LStrip(Tail(s), chars) ELSE s

RECURSIVE RStrip(_, _)
RStrip(s, chars) ==
    IF s # <<>> /\ s[Len(s)] \in chars
    THEN RStrip(SubSeq(s, 1, Len(s) - 1), chars)
    ELSE s

\* str.strip(chars)
Strip(s, chars) == RStrip(LStrip(s, chars), chars)

\* tok in s
Contains(s, tok) == \E i \in 1..Len(s) : s[i] = tok

\* s.find(tok, from): the first index >= from holding tok, 0 when there is none
Find(s, tok, from) ==
    IF \E i \in from..Len(s) : s[i] = tok
    THEN CHOOSE i \in from..Len(s) :
             s[i] = tok /\ \A k \in from..(i - 1) : s[k] # tok
    ELSE 0

\* s.rfind(tok): the last index holding tok, 0 when there is none
RFind(s, tok) ==
    IF Contains(s, tok)
    THEN CHOOSE i \in 1..Len(s) :
             s[i] = tok /\ \A k \in (i + 1)..Len(s) : s[k] # tok
    ELSE 0

\* s[from:] of Python, 1-based
From(s, from) == SubSeq(s, from, Len(s))

(***************************************************************************)
(* The tool registry.                                                      *)
(***************************************************************************)
\* SippyAgent._create_tools: the names of the twelve tools, in order.
CreateTools ==
    << "example_tool", "analyze_job", "analyze_test_failures",
       "get_prow_job_summary", "analyze_job_logs", "check_known_incidents",
       "get_release_payloads", "get_payload_details", "get_release_info",
       "parse_junit_xml", "get_aggregated_results_url",
       "parse_aggregated_yaml" >>

\* Names of the tools a caller of add_tool may bring (any BaseTool).
AddableTools == {"custom_tool"}

\* SippyAgent.list_tools: [tool.name for tool in self.tools]
ListTools(reg) == [i \in 1..Len(reg) |-> reg[i]]

\* AgentExecutor._call: name_to_tool_map = {tool.name: tool for tool in
\* self.tools}, as its keys in order: a name that comes again keeps its
\* first place.
NameToToolMap(reg) ==
    LET first == SelectSeq([i \in 1..Len(reg) |-> <<i, reg[i]>>],
                           LAMBDA e : \A k \in 1..(e[1] - 1) : reg[k] # e[2])
    IN  [i \in 1..Len(first) |-> first[i][2]]

\* The tool names of a registry, as list_tools gives them.
ToolNames(reg) == {reg[i] : i \in 1..Len(reg)}

(***************************************************************************)
(* Tool executors.  An outcome is what BaseTool.run gives back: a text, or *)
(* an exception that run re-raises.                                        *)
(***************************************************************************)
Returned(text) == [raised |-> FALSE, text |-> text]

Raised(text) == [raised |-> TRUE, text |-> text]

\* Mutant of ExampleToolRun: the prefix is dropped.
ExampleToolRunNoPrefix(message) == message

\* ExampleTool._run: f"Echo: {message}"
ExampleToolRun(message) == <<"Echo: ">> \o message

\* The HTTP-backed tools return a report, or catch their own failure and
\* return a text that starts with "Error: ".
SippyToolRun(name, input) ==
    { Returned(<<"Report: ">> \o input),
      Returned(<<"Error: ", "Invalid", " JSON response from Sippy API">>) }

\* A tool added through add_tool is any BaseTool: its _run may return or raise.
AddedToolRun(input) ==
    { Returned(<<"Custom: ">> \o input), Raised(<<"tool crashed">>) }

\* tool.run(tool_input) of the tool registered under name.
ToolRun(name, input) ==
    IF name = "example_tool" THEN { Returned(ExampleToolRun(input)) }
    ELSE IF name \in AddableTools THEN AddedToolRun(input)
    ELSE SippyToolRun(name, input)

(***************************************************************************)
(* The output parser of the Re-Act agent built by create_react_agent.      *)
(***************************************************************************)
AgentAction(tool, tool_input, log) ==
    [kind |-> "action", tool |-> tool, tool_input |-> tool_input,
     log |-> log, output |-> <<>>]

AgentFinish(output, log) ==
    [kind |-> "finish", tool |-> <<>>, tool_input |-> <<>>,
     log |-> log, output |-> output]

\* Mutant of ParseFailure: nothing is sent back to the model.
ParseFailureNoObservation(observation, text) ==
    [kind |-> "error", tool |-> <<"_Exception">>, tool_input |-> <<>>,
     log |-> text, output |-> <<>>]

\* An OutputParserException, as handle_parsing_errors=True turns it into the
\* action of the exception tool: the observation sent back, and the log.
ParseFailure(observation, text) ==
    [kind |-> "error", tool |-> <<"_Exception">>, tool_input |-> observation,
     log |-> text, output |-> <<>>]

\* The action regex  Action\s*:[\s]*(.*?)[\s]*Action\s*Input\s*:[\s]*(.*)
\* matches from the first "Action:" that an "Action Input:" follows; group 1
\* ends at the first "Action Input:" after it, group 2 is the rest.
ActionStart(text) == Find(text, "Action:", 1)

ActionInputStart(text) ==
    IF ActionStart(text) = 0 THEN 0
    ELSE Find(text, "Action Input:", ActionStart(text) + 1)

\* action_match.group(1).strip()
ParsedTool(text) ==
    Strip(SubSeq(text, ActionStart(text) + 1, ActionInputStart(text) - 1),
          Whitespace)

\* Mutant of ParsedToolInput: the quotes are kept.
ParsedToolInputKeepQuotes(text) ==
    Strip(LStrip(From(text, ActionInputStart(text) + 1), Whitespace), {" "})

\* action_match.group(2).strip(" ").strip('"'): the regex has consumed the
\* white space after the colon.
ParsedToolInput(text) ==
    Strip(Strip(LStrip(From(text, ActionInputStart(text) + 1), Whitespace),
                {" "}),
          {"\""})

\* Mutant of ParsedFinalAnswer: the answer is not stripped.
ParsedFinalAnswerUntrimmed(text) ==
    From(text, RFind(text, "Final Answer:") + 1)

\* text.split("Final Answer:")[-1].strip()
ParsedFinalAnswer(text) ==
    Strip(From(text, RFind(text, "Final Answer:") + 1), Whitespace)

\* ReActSingleInputOutputParser.parse
ParseOutput(text) ==
    IF ActionInputStart(text) # 0
    THEN IF Contains(text, "Final Answer:")
         THEN ParseFailure(<<"Invalid or incomplete response">>,
                  <<"Parsing LLM output produced both a final answer and a parse-able action: ">>
                  \o text)
         ELSE AgentAction(ParsedTool(text), ParsedToolInput(text), text)
    ELSE IF Contains(text, "Final Answer:")
    THEN AgentFinish(ParsedFinalAnswer(text), text)
    ELSE IF ~Contains(text, "Action:")
    THEN ParseFailure(
             <<"Invalid Format: Missing 'Action:' after 'Thought:'">>, text)
    ELSE IF ~Contains(text, "Action Input:")
    THEN ParseFailure(
             <<"Invalid Format: Missing 'Action Input:' after 'Action:'">>,
             text)
    ELSE ParseFailure(<<"Invalid or incomplete response">>,
             <<"Could not parse LLM output: ">> \o text)

(***************************************************************************)
(* SippyAgent._extract_thought_from_log and _parse_thinking_steps.         *)
(***************************************************************************)
\* The lines of log.split('\n')
RECURSIVE SplitLines(_)
SplitLines(s) ==
    IF Find(s, "\n", 1) = 0 THEN <<s>>
    ELSE <<SubSeq(s, 1, Find(s, "\n", 1) - 1)>>
         \o SplitLines(From(s, Find(s, "\n", 1) + 1))

\* The first stripped line that is not empty and starts with neither
\* 'Action:' nor 'Action Input:'; "Analyzing..." when there is none.
RECURSIVE FirstReasoningLine(_)
FirstReasoningLine(lines) ==
    IF lines = <<>> THEN <<"Analyzing...">>
    ELSE LET line == Strip(Head(lines), Whitespace)
         IN  IF line # <<>> /\ Head(line) \notin {"Action:", "Action Input:"}
             THEN line
             ELSE FirstReasoningLine(Tail(lines))

\* SippyAgent._extract_thought_from_log
ExtractThought(log) ==
    IF log = <<>> THEN <<"Processing...">>
    ELSE IF Contains(log, "Thought:")
    THEN \* Thought:\s*(.*?)(?=\nAction:|Action:|$)
         LET t == Find(log, "Thought:", 1)
             a == Find(log, "Action:", t + 1)
             e == IF a = 0 THEN Len(log) ELSE a - 1
         IN  Strip(SubSeq(log, t + 1, e), Whitespace)
    ELSE LET a == Find(log, "Action:", 1)
             potential_thought ==
                 IF a = 0 THEN <<>>
                 ELSE Strip(SubSeq(log, 1, a - 1), Whitespace)
         IN  IF potential_thought # <<>>
                /\ Head(potential_thought) \notin {"Action:", "Action Input:"}
             THEN potential_thought
             ELSE FirstReasoningLine(SplitLines(log))

\* Mutant of ErrorSentinels: no action name is skipped.
NoSentinels == {}

\* The action names that _parse_thinking_steps and _extract_tools_used skip.
ErrorSentinels == {<<"_Exception">>, <<"Invalid">>, <<"Error">>}

\* 'Invalid' in str(observation): the texts of the model that hold "Invalid".
HoldsInvalid(text) ==
    \E i \in 1..Len(text) :
        text[i] \in {"Invalid", "Invalid or incomplete response",
                     "Invalid Format: Missing 'Action:' after 'Thought:'",
                     "Invalid Format: Missing 'Action Input:' after 'Action:'"}

\* One intermediate step of the executor: (AgentAction, observation).
AgentStep(action, observation) ==
    [tool |-> action.tool, tool_input |-> action.tool_input,
     log |-> action.log, observation |-> observation]

\* SippyAgent._parse_thinking_steps
RECURSIVE ParseThinkingSteps(_)
ParseThinkingSteps(steps) ==
    IF steps = <<>> THEN <<>>
    ELSE LET step == Head(steps)
         IN  IF step.tool \in ErrorSentinels \/ HoldsInvalid(step.observation)
             THEN ParseThinkingSteps(Tail(steps))
             ELSE << [thought |-> ExtractThought(step.log),
                      action |-> step.tool,
                      action_input |-> step.tool_input,
                      observation |-> step.observation] >>
                  \o ParseThinkingSteps(Tail(steps))

(***************************************************************************)
(* What SippyAgent.chat returns, and the ChatResponse of POST /chat.       *)
(***************************************************************************)
\* TokenCountingHandler.reset
TokenCounterReset == [call_count |-> 0, total_tokens |-> 0]

\* TokenCountingHandler.on_llm_end, for a response that reports usage tokens
OnLlmEnd(tc, usage) ==
    [call_count |-> tc.call_count + 1, total_tokens |-> tc.total_tokens + usage]

\* SippyAgent.chat, the path after agent_executor.invoke returned
ChatReturn(cfg, tc, output, steps) ==
    IF cfg.show_thinking
    THEN [is_dict |-> TRUE, output |-> output,
          thinking_steps |-> Some(ParseThinkingSteps(steps)),
          token_usage |-> IF tc.total_tokens > 0 THEN Some(tc) ELSE None]
    ELSE IF cfg.verbose /\ tc.total_tokens > 0
    THEN [is_dict |-> TRUE, output |-> output,
          thinking_steps |-> None, token_usage |-> Some(tc)]
    ELSE [is_dict |-> FALSE, output |-> output,
          thinking_steps |-> None, token_usage |-> None]

\* Mutant of ChatExcept: the exception's message is left out.
ChatExceptNoMessage(cfg, e) ==
    LET error_msg ==
            <<"I encountered an error while processing your request.">>
    IN  IF cfg.show_thinking
        THEN [is_dict |-> TRUE, output |-> error_msg,
              thinking_steps |-> Some(<<>>), token_usage |-> None]
        ELSE [is_dict |-> FALSE, output |-> error_msg,
              thinking_steps |-> None, token_usage |-> None]

\* SippyAgent.chat, the except branch: e is the exception's message
ChatExcept(cfg, e) ==
    LET error_msg ==
            <<"I encountered an error while processing your request: ">> \o e
    IN  IF cfg.show_thinking
        THEN [is_dict |-> TRUE, output |-> error_msg,
              thinking_steps |-> Some(<<>>), token_usage |-> None]
        ELSE [is_dict |-> FALSE, output |-> error_msg,
              thinking_steps |-> None, token_usage |-> None]

\* SippyWebServer._extract_tools_used (a set: the list's order is arbitrary)
ExtractToolsUsed(thinking_steps) ==
    { thinking_steps[i].action : i \in 1..Len(thinking_steps) }
        \ (ErrorSentinels \cup {<<>>})

\* Mutant of NumberedSteps: the steps are numbered from the last one.
NumberedStepsReversed(thinking_steps) ==
    [i \in 1..Len(thinking_steps) |->
        LET step == thinking_steps[Len(thinking_steps) + 1 - i]
        IN  [step_number |-> i,
             thought |-> step.thought,
             action |-> step.action,
             action_input |-> step.action_input,
             observation |-> step.observation]]

\* The ThinkingStep list of the endpoint: enumerate(..., 1)
NumberedSteps(thinking_steps) ==
    [i \in 1..Len(thinking_steps) |->
        [step_number |-> i,
         thought |-> thinking_steps[i].thought,
         action |-> thinking_steps[i].action,
         action_input |-> thinking_steps[i].action_input,
         observation |-> thinking_steps[i].observation]]

ChatResponse(response, thinking_steps, tools_used, error) ==
    [response |-> response, thinking_steps |-> thinking_steps,
     tools_used |-> tools_used, error |-> error]

\* The /chat endpoint, from the value agent.chat returned.  A dict without
\* "thinking_steps" is passed as `response`, which must be a str: the
\* constructor raises and the outer except answers.
ChatEndpoint(result) ==
    IF result.is_dict /\ result.thinking_steps.some
    THEN ChatResponse(result.output,
                      Some(NumberedSteps(result.thinking_steps.val)),
                      Some(ExtractToolsUsed(result.thinking_steps.val)),
                      None)
    ELSE IF result.is_dict
    THEN ChatResponse(
             <<"I encountered an error while processing your request.">>,
             None, None, Some(<<"validation error for ChatResponse">>))
    ELSE ChatResponse(result.output, None, None, None)

\* A StreamMessage: its type and data.
StreamMessage(type, data) == [type |-> type, data |-> data]

\* websocket_chat: the messages sent for the value agent.chat returned, the
\* thinking steps first when asked for, then the final response.
WsMessages(show_thinking, result) ==
    LET steps == IF result.thinking_steps.some
                 THEN result.thinking_steps.val ELSE <<>>
        thinking ==
            IF show_thinking /\ result.is_dict /\ result.thinking_steps.some
            THEN [i \in 1..Len(steps) |->
                     StreamMessage("thinking_step", NumberedSteps(steps)[i])]
            ELSE <<>>
        final ==
            StreamMessage("final_response",
                [response |-> result.output,
                 tools_used |-> IF result.is_dict
                                THEN ExtractToolsUsed(steps) ELSE {}])
    IN  thinking \o <<final>>

(***************************************************************************)
(* The inputs of a run.                                                    *)
(***************************************************************************)
\* Completions the language model may return.
ActionText(thought, tool, input) ==
    <<"Thought:", " ", thought, "\n", "Action:", " ", tool, "\n",
      "Action Input:", " ">> \o input

FinalText(answer) == <<"Final Answer:", " ", answer>>

Completions ==
    { ActionText("t", "example_tool", <<"hi">>),
      ActionText("t", "get_prow_job_summary", <<"\"", "123", "\"">>),
      ActionText("t", "custom_tool", <<"x">>),
      FinalText("done"),
      <<"I", " ", "am", " ", "not", " ", "sure">> }

\* Messages of the exceptions a language-model call may raise.
ModelErrors == { <<"Connection error.">> }

\* Ticks a language-model call or a tool call may take.
Delays == {0, 1, 2}

\* Total tokens one language-model response may report (0: none reported).
Usages == {0, 1}

\* show_thinking of a ChatRequest: absent, true or false.
RequestThinking == {"absent", "true", "false"}

(***************************************************************************)
(* State.                                                                  *)
(***************************************************************************)
VARIABLES
    config,             \* the Config shared by the server and the agent
    tools,              \* SippyAgent.tools
    llm_usage,          \* tokens the configured model reports per call
    token_counter,      \* SippyAgent.token_counter
    pc,                 \* "idle", "running" (loop head), "tool" (tool call)
    original_thinking,  \* local of the /chat handler
    iterations,         \* AgentExecutor._call: iterations
    time_elapsed,       \* AgentExecutor._call: time_elapsed
    clock,              \* ticks since the turn started (time.time() - start)
    intermediate_steps, \* AgentExecutor._call: intermediate_steps
    pending,            \* the AgentAction whose tool is about to run
    llm_calls,          \* language-model calls made in this turn
    completions,        \* the texts those calls returned, in order
    tool_calls,         \* executor calls made in this turn, in order
    outcome,            \* how the last turn ended
    chat_result,        \* what SippyAgent.chat returned for the last turn
    response,           \* the ChatResponse of the last request
    ws_pc,              \* websocket_chat: "idle", "running", "sending",
                        \* "failed" (ended by an exception)
    ws_original,        \* local original_thinking of websocket_chat
    ws_out,             \* the StreamMessages sent for the last message
    ws_connected,       \* the WebSocket client is connected
    cli_pc,             \* SippyCLI.process_user_input: "idle", "running"
    streamed,           \* the calls of the thinking callback, in order
    name_to_tool_map,   \* AgentExecutor._call: the tool names of this turn
    chat_history,       \* SippyCLI.chat_history
    user_input          \* process_user_input: the input of the turn

vars ==
    << config, tools, llm_usage, token_counter, pc, original_thinking,
       iterations, time_elapsed, clock, intermediate_steps, pending,
       llm_calls, completions, tool_calls, outcome, chat_result, response,
       ws_pc, ws_original, ws_out, ws_connected, cli_pc, streamed,
       name_to_tool_map, chat_history, user_input >>

NoAction == AgentAction(<<>>, <<>>, <<>>)

NoResult ==
    [is_dict |-> FALSE, output |-> <<>>, thinking_steps |-> None,
     token_usage |-> None]

NoResponse == ChatResponse(<<>>, None, None, None)

\* The state after SippyWebServer.__init__: the Config as the entry point
\* filled it (verbose, show_thinking, max_iterations, max_execution_time),
\* the twelve tools, a fresh token counter.
Init ==
    /\ config \in [max_iterations : 1..MaxIter,
                   max_execution_time : 1..MaxTime,
                   show_thinking : BOOLEAN,
                   verbose : BOOLEAN]
    /\ tools = CreateTools
    /\ llm_usage \in Usages
    /\ token_counter = TokenCounterReset
    /\ pc = "idle"
    /\ original_thinking = config.show_thinking
    /\ iterations = 0
    /\ time_elapsed = 0
    /\ clock = 0
    /\ intermediate_steps = <<>>
    /\ pending = NoAction
    /\ llm_calls = 0
    /\ completions = <<>>
    /\ tool_calls = <<>>
    /\ outcome = "none"
    /\ chat_result = NoResult
    /\ response = NoResponse
    /\ ws_pc = "idle"
    /\ ws_original = FALSE
    /\ ws_out = <<>>
    /\ ws_connected = FALSE
    /\ cli_pc = "idle"
    /\ streamed = <<>>
    /\ name_to_tool_map = <<>>
    /\ chat_history = <<>>
    /\ user_input = <<>>

(***************************************************************************)
(* StreamingThinkingHandler: agent.chat attaches it when show_thinking is  *)
(* on and the caller (the CLI) passed a thinking callback.                 *)
(***************************************************************************)
Streaming == cli_pc = "running" /\ config.show_thinking

\* "Invalid" in output or "Error" in output or "_Exception" in output: the
\* texts of the model that hold one of the three words.
HoldsErrorWord(text) ==
    \/ HoldsInvalid(text)
    \/ \E i \in 1..Len(text) : text[i] \in {"Error: ", "Error", "_Exception"}

\* One call of thinking_callback(thought, action, action_input, observation).
CallbackCall(thought, action, action_input, observation) ==
    [thought |-> thought, action |-> action, action_input |-> action_input,
     observation |-> observation]

\* StreamingThinkingHandler.on_agent_action
OnAgentAction(calls, action) ==
    IF action.tool \in ErrorSentinels THEN calls
    ELSE Append(calls, CallbackCall(ExtractThought(action.log), action.tool,
                                    action.tool_input, <<>>))

\* Mutant of OnToolEnd: every output is streamed.
OnToolEndNoSkip(calls, output) ==
    Append(calls, CallbackCall(<<>>, <<>>, <<>>, output))

\* StreamingThinkingHandler.on_tool_end
OnToolEnd(calls, output) ==
    IF HoldsErrorWord(output) THEN calls
    ELSE Append(calls, CallbackCall(<<>>, <<>>, <<>>, output))

\* The callback calls of one language-model call: none for a final answer;
\* for an action, on_agent_action; for a parse error, on_agent_action for the
\* exception action and on_tool_end for what the exception tool returns.
PlanStream(output) ==
    IF ~Streaming \/ output.kind = "finish" THEN streamed
    ELSE IF output.kind = "action" THEN OnAgentAction(streamed, output)
    ELSE OnToolEnd(OnAgentAction(streamed, output), output.tool_input)

(***************************************************************************)
(* The executor loop.                                                      *)
(***************************************************************************)
\* Mutant of ShouldContinue: the iteration ceiling is off by one.
ShouldContinueOffByOne(its, elapsed) ==
    /\ ~(its > config.max_iterations)
    /\ ~(elapsed >= config.max_execution_time)

\* Mutant of ShouldContinue: max_execution_time is not passed on.
ShouldContinueIterationsOnly(its, elapsed) ==
    ~(its >= config.max_iterations)

\* AgentExecutor._should_continue
ShouldContinue(its, elapsed) ==
    /\ ~(its >= config.max_iterations)
    /\ ~(elapsed >= config.max_execution_time)

\* The clock after a call that took d ticks.  It saturates one tick past
\* the time budget: the loop only compares it with max_execution_time.
Advance(d) ==
    IF clock + d > config.max_execution_time
    THEN config.max_execution_time + 1
    ELSE clock + d

\* The answer of the "force" early stopping method.
StoppedOutput == <<"Agent stopped due to iteration limit or time limit.">>

\* Mutant of InvalidToolObservation: the valid names are left out.
InvalidToolObservationNoNames(tool) ==
    tool \o <<" is not a valid tool">>

\* InvalidTool: the observation for a name that is not registered.
InvalidToolObservation(tool) ==
    tool \o <<" is not a valid tool, try one of ">> \o name_to_tool_map

\* The end of a turn: agent.chat has returned `result` to the handler that
\* called it.  The /chat endpoint builds its ChatResponse and its finally
\* block restores show_thinking.
Finish(result, how) ==
    /\ chat_result' = result
    /\ IF ws_pc = "running"
       THEN \* websocket_chat goes on to send its messages
            /\ ws_pc' = "sending"
            /\ ws_out' = WsMessages(config.show_thinking, result)
            /\ UNCHANGED <<response, config, cli_pc, chat_history>>
       ELSE IF cli_pc = "running"
       THEN \* process_user_input displays the response and stores the
            \* final output in the history
            /\ cli_pc' = "idle"
            /\ chat_history' =
                   Append(chat_history, <<user_input, result.output>>)
            /\ UNCHANGED <<response, config, ws_pc, ws_out>>
       ELSE \* POST /chat
            /\ response' = ChatEndpoint(result)
            /\ config' = [config EXCEPT !.show_thinking = original_thinking]
            /\ UNCHANGED <<ws_pc, cli_pc, ws_out, chat_history>>
    /\ name_to_tool_map' = <<>>
    /\ user_input' = user_input
    /\ outcome' = how
    /\ pc' = "idle"
    /\ pending' = NoAction

\* POST /chat up to the first loop-head check: the handler overrides
\* show_thinking, agent.chat resets the token counter and invokes the
\* executor, which starts with no steps and a fresh clock.
StartChat(req) ==
    /\ pc = "idle"
    /\ original_thinking' = config.show_thinking
    /\ config' = IF req = "absent" THEN config
                 ELSE [config EXCEPT !.show_thinking = (req = "true")]
    /\ token_counter' = TokenCounterReset
    /\ iterations' = 0
    /\ time_elapsed' = 0
    /\ clock' = 0
    /\ intermediate_steps' = <<>>
    /\ pending' = NoAction
    /\ llm_calls' = 0
    /\ completions' = <<>>
    /\ tool_calls' = <<>>
    /\ outcome' = "none"
    /\ chat_result' = NoResult
    /\ response' = NoResponse
    /\ name_to_tool_map' = NameToToolMap(tools)
    /\ pc' = "running"
    /\ UNCHANGED <<tools, llm_usage, ws_pc, cli_pc, ws_original, streamed,
                   ws_connected, ws_out, chat_history, user_input>>

\* The loop head finds a budget used up: the executor returns the stopping
\* answer with the steps so far.
BudgetStop ==
    /\ pc = "running"
    /\ ~ShouldContinue(iterations, time_elapsed)
    /\ Finish(ChatReturn(config, token_counter, StoppedOutput,
                         intermediate_steps), "stopped")
    /\ UNCHANGED <<tools, llm_usage, token_counter, original_thinking,
                   iterations, time_elapsed, clock, intermediate_steps,
                   llm_calls, completions, tool_calls, ws_original, streamed,
                   ws_connected>>

\* The language-model call raises: the exception leaves invoke and
\* agent.chat answers from its except branch.
PlanRaises(d, e) ==
    /\ pc = "running"
    /\ ShouldContinue(iterations, time_elapsed)
    /\ llm_calls' = llm_calls + 1
    /\ clock' = Advance(d)
    /\ Finish(ChatExcept(config, e), "model_error")
    /\ UNCHANGED <<tools, llm_usage, token_counter, original_thinking,
                   iterations, time_elapsed, intermediate_steps, completions,
                   tool_calls, ws_original, streamed,
                   ws_connected>>

\* The language-model call returns `text`, which the agent parses.
Plan(d, text) ==
    /\ pc = "running"
    /\ ShouldContinue(iterations, time_elapsed)
    /\ llm_calls' = llm_calls + 1
    /\ completions' = Append(completions, text)
    /\ clock' = Advance(d)
    /\ token_counter' = OnLlmEnd(token_counter, llm_usage)
    /\ LET output == ParseOutput(text)
       IN  CASE output.kind = "finish" ->
                  /\ Finish(ChatReturn(config, token_counter', output.output,
                                       intermediate_steps), "final")
                  /\ UNCHANGED <<iterations, time_elapsed, intermediate_steps>>
             [] output.kind = "error" ->
                  \* the exception tool echoes the observation; one iteration
                  /\ intermediate_steps' =
                         Append(intermediate_steps,
                                AgentStep(output, output.tool_input))
                  /\ iterations' = iterations + 1
                  /\ time_elapsed' = clock'
                  /\ UNCHANGED <<config, pc, pending, outcome, chat_result,
                                 response, ws_pc, cli_pc, ws_out,
                                 name_to_tool_map, chat_history, user_input>>
             [] output.kind = "action" ->
                  /\ pending' = output
                  /\ pc' = "tool"
                  /\ UNCHANGED <<config, iterations, time_elapsed,
                                 intermediate_steps, outcome, chat_result,
                                 response, ws_pc, cli_pc, ws_out,
                                 name_to_tool_map, chat_history, user_input>>
    /\ streamed' = PlanStream(ParseOutput(text))
    /\ UNCHANGED <<tools, llm_usage, original_thinking, tool_calls,
                   ws_original, ws_connected>>

\* _perform_agent_action for a name that is not registered: InvalidTool
\* answers, no executor runs.
RunInvalidTool(d) ==
    /\ pc = "tool"
    /\ pending.tool \notin { <<n>> : n \in ToolNames(name_to_tool_map) }
    /\ clock' = Advance(d)
    /\ intermediate_steps' =
           Append(intermediate_steps,
                  AgentStep(pending, InvalidToolObservation(pending.tool)))
    /\ iterations' = iterations + 1
    /\ time_elapsed' = clock'
    /\ pending' = NoAction
    /\ pc' = "running"
    /\ streamed' = IF Streaming
                   THEN OnToolEnd(streamed, InvalidToolObservation(pending.tool))
                   ELSE streamed
    /\ UNCHANGED <<config, tools, llm_usage, token_counter, original_thinking,
                   llm_calls, completions, tool_calls, outcome, chat_result,
                   response, ws_pc, cli_pc, ws_original, ws_connected, ws_out,
                   name_to_tool_map, chat_history, user_input>>

\* The executor call that _perform_agent_action makes for `action`.
Dispatch(action) == [tool |-> action.tool[1], tool_input |-> action.tool_input]

\* _perform_agent_action for a registered tool: tool.run(tool_input).  A
\* returned text is the observation of a new step; an exception leaves
\* invoke and agent.chat answers from its except branch.
RunTool(d) ==
    /\ pc = "tool"
    /\ pending.tool \in { <<n>> : n \in ToolNames(name_to_tool_map) }
    /\ clock' = Advance(d)
    /\ tool_calls' = Append(tool_calls, Dispatch(pending))
    /\ \E result \in ToolRun(Dispatch(pending).tool, Dispatch(pending).tool_input) :
          IF result.raised
          THEN /\ Finish(ChatExcept(config, result.text), "tool_error")
               /\ UNCHANGED <<iterations, time_elapsed, intermediate_steps,
                              streamed>>
          ELSE /\ intermediate_steps' =
                      Append(intermediate_steps,
                             AgentStep(pending, result.text))
               /\ iterations' = iterations + 1
               /\ time_elapsed' = clock'
               /\ pending' = NoAction
               /\ pc' = "running"
               /\ streamed' = IF Streaming
                              THEN OnToolEnd(streamed, result.text)
                              ELSE streamed
               /\ UNCHANGED <<config, outcome, chat_result, response, ws_pc,
                              cli_pc, ws_out, name_to_tool_map, chat_history,
                              user_input>>
    /\ UNCHANGED <<tools, llm_usage, token_counter, original_thinking,
                   llm_calls, completions, ws_original, ws_connected>>

\* Mutant of AddTool: the new tool is put in front.
AddToolInFront(name) ==
    /\ tools' = <<name>> \o tools
    /\ UNCHANGED <<config, llm_usage, token_counter, pc, original_thinking,
                   iterations, time_elapsed, clock, intermediate_steps,
                   pending, llm_calls, completions, tool_calls, outcome,
                   chat_result, response, ws_pc, cli_pc, ws_original, streamed,
                   ws_connected, ws_out, name_to_tool_map, chat_history,
                   user_input>>

\* Mutant of AddTool: the tool map of the turn in flight gets the tool too.
AddToolIntoRunningLoop(name) ==
    /\ tools' = Append(tools, name)
    /\ name_to_tool_map' = IF pc = "idle" THEN name_to_tool_map
                           ELSE NameToToolMap(tools')
    /\ UNCHANGED <<config, llm_usage, token_counter, pc, original_thinking,
                   iterations, time_elapsed, clock, intermediate_steps,
                   pending, llm_calls, completions, tool_calls, outcome,
                   chat_result, response, ws_pc, cli_pc, ws_original, streamed,
                   ws_connected, ws_out, chat_history, user_input>>

\* SippyAgent.add_tool: append the tool and put a new executor, built from
\* the tools, in place of the old one.  The executor of a turn in flight is
\* the old one, and its name_to_tool_map was built when the turn started.
AddTool(name) ==
    /\ tools' = Append(tools, name)
    /\ UNCHANGED <<config, llm_usage, token_counter, pc, original_thinking,
                   iterations, time_elapsed, clock, intermediate_steps,
                   pending, llm_calls, completions, tool_calls, outcome,
                   chat_result, response, ws_pc, cli_pc, ws_original, streamed,
                   ws_connected, ws_out, name_to_tool_map, chat_history,
                   user_input>>

Next ==
    \/ \E req \in RequestThinking : StartChat(req)
    \/ BudgetStop
    \/ \E d \in Delays, e \in ModelErrors : PlanRaises(d, e)
    \/ \E d \in Delays, text \in Completions : Plan(d, text)
    \/ \E d \in Delays : RunInvalidTool(d)
    \/ \E d \in Delays : RunTool(d)
    \/ \E name \in AddableTools :
           /\ pc = "idle"
           /\ Len(tools) < Len(CreateTools) + MaxAdded
           /\ AddTool(name)

Spec == Init /\ [][Next]_vars

(***************************************************************************)
(* The output parser on its own: every completion of at most MaxLen tokens *)
(* is parsed once.                                                         *)
(***************************************************************************)
\* The tokens a completion is made of.
Tokens == {"Thought:", "Action:", "Action Input:", "Final Answer:",
           " ", "\n", "a"}

\* The completions of at most MaxLen tokens.
Texts == UNION { [1..n -> Tokens] : n \in 1..MaxLen }

ParseInit ==
    /\ config = [max_iterations |-> 1, max_execution_time |-> 1,
                 show_thinking |-> FALSE, verbose |-> FALSE]
    /\ tools = CreateTools
    /\ llm_usage = 0
    /\ token_counter = TokenCounterReset
    /\ pc = "parse"
    /\ original_thinking = FALSE
    /\ iterations = 0
    /\ time_elapsed = 0
    /\ clock = 0
    /\ intermediate_steps = <<>>
    /\ pending = NoAction
    /\ llm_calls = 0
    /\ completions \in { <<text>> : text \in Texts }
    /\ tool_calls = <<>>
    /\ outcome = "none"
    /\ chat_result = NoResult
    /\ response = NoResponse
    /\ ws_pc = "idle"
    /\ ws_original = FALSE
    /\ ws_out = <<>>
    /\ ws_connected = FALSE
    /\ cli_pc = "idle"
    /\ streamed = <<>>
    /\ name_to_tool_map = <<>>
    /\ chat_history = <<>>
    /\ user_input = <<>>

\* The agent parses the completion: output_parser.parse(text).
ParseCompletion ==
    /\ pc = "parse"
    /\ pending' = ParseOutput(completions[1])
    /\ pc' = "parsed"
    /\ UNCHANGED <<config, tools, llm_usage, token_counter, original_thinking,
                   iterations, time_elapsed, clock, intermediate_steps,
                   llm_calls, completions, tool_calls, outcome, chat_result,
                   response, ws_pc, cli_pc, ws_original, streamed,
                   ws_connected, ws_out, name_to_tool_map, chat_history,
                   user_input>>

ParseNext == ParseCompletion

ParseSpec == ParseInit /\ [][ParseNext]_vars

(***************************************************************************)
(* The server with a WebSocket client next to the POST /chat clients.  The *)
(* handlers are coroutines of one event loop: agent.chat does not yield,   *)
(* so a turn runs from its start to its end without another handler in     *)
(* between; websocket_chat yields at every message it sends, with its      *)
(* show_thinking override still in place.                                  *)
(***************************************************************************)
\* A client opens /chat/stream: websocket_manager.connect.
WsConnect ==
    /\ ~ws_connected
    /\ ws_pc \in {"idle", "failed"}
    /\ ws_connected' = TRUE
    /\ ws_pc' = "idle"
    /\ UNCHANGED <<config, tools, llm_usage, token_counter, pc,
                   original_thinking, iterations, time_elapsed, clock,
                   intermediate_steps, pending, llm_calls, completions,
                   tool_calls, outcome, chat_result, response, cli_pc,
                   ws_original, streamed, ws_out, name_to_tool_map,
                   chat_history, user_input>>

\* The client goes away, at any moment.  The handler learns of it only at
\* its next receive or send; agent.chat looks at nothing of the kind.
WsDisconnect ==
    /\ ws_connected
    /\ ws_connected' = FALSE
    /\ UNCHANGED <<config, tools, llm_usage, token_counter, pc,
                   original_thinking, iterations, time_elapsed, clock,
                   intermediate_steps, pending, llm_calls, completions,
                   tool_calls, outcome, chat_result, response, ws_pc, cli_pc,
                   ws_original, streamed, ws_out, name_to_tool_map,
                   chat_history, user_input>>

\* websocket_chat up to the first loop-head check: a message is received,
\* show_thinking (default: the Config's) overrides the Config, agent.chat
\* resets the token counter and invokes the executor.
WsStart(req) ==
    /\ pc = "idle"
    /\ ws_pc = "idle"
    /\ ws_connected
    /\ ws_original' = config.show_thinking
    /\ config' = IF req = "absent" THEN config
                 ELSE [config EXCEPT !.show_thinking = (req = "true")]
    /\ token_counter' = TokenCounterReset
    /\ iterations' = 0
    /\ time_elapsed' = 0
    /\ clock' = 0
    /\ intermediate_steps' = <<>>
    /\ pending' = NoAction
    /\ llm_calls' = 0
    /\ completions' = <<>>
    /\ tool_calls' = <<>>
    /\ outcome' = "none"
    /\ chat_result' = NoResult
    /\ ws_out' = <<>>
    /\ name_to_tool_map' = NameToToolMap(tools)
    /\ ws_pc' = "running"
    /\ pc' = "running"
    /\ UNCHANGED <<tools, llm_usage, original_thinking, response,
                   ws_connected, cli_pc, streamed, chat_history, user_input>>

\* websocket_chat receives a text that is not JSON: json.loads raises
\* before the inner try, the outer except takes the connection off the
\* manager and the handler returns.  Nothing is sent.
WsReceiveInvalid ==
    /\ pc = "idle"
    /\ ws_pc = "idle"
    /\ ws_connected
    /\ ws_out' = <<>>
    /\ ws_connected' = FALSE
    /\ ws_pc' = "failed"
    /\ UNCHANGED <<config, tools, llm_usage, token_counter, pc,
                   original_thinking, iterations, time_elapsed, clock,
                   intermediate_steps, pending, llm_calls, completions,
                   tool_calls, outcome, chat_result, response, cli_pc,
                   ws_original, streamed, name_to_tool_map, chat_history,
                   user_input>>

\* websocket_chat after its last send: the finally block restores
\* show_thinking.  It runs when no other handler holds the event loop.
WsDone ==
    /\ ws_pc = "sending"
    /\ pc = "idle"
    /\ config' = [config EXCEPT !.show_thinking = ws_original]
    /\ ws_pc' = "idle"
    /\ UNCHANGED <<tools, llm_usage, token_counter, pc, original_thinking,
                   iterations, time_elapsed, clock, intermediate_steps,
                   pending, llm_calls, completions, tool_calls, outcome,
                   chat_result, response, ws_original, streamed,
                   ws_connected, ws_out, cli_pc, name_to_tool_map,
                   chat_history, user_input>>

\* The server as started by default: show_thinking and verbose are off.
ServerInit == Init /\ ~config.show_thinking /\ ~config.verbose

\* What the model returns in the runs of the server.
ServerCompletions ==
    { ActionText("t", "example_tool", <<"hi">>), FinalText("done") }

\* POST /chat requests leave show_thinking out; the WebSocket client sets it.
ServerNext ==
    \/ StartChat("absent")
    \/ WsConnect
    \/ WsDisconnect
    \/ \E req \in RequestThinking : WsStart(req)
    \/ WsReceiveInvalid
    \/ WsDone
    \/ BudgetStop
    \/ \E e \in ModelErrors : PlanRaises(0, e)
    \/ \E text \in ServerCompletions : Plan(0, text)
    \/ RunTool(0)

ServerSpec == ServerInit /\ [][ServerNext]_vars

(***************************************************************************)
(* The command line: SippyCLI.process_user_input runs one turn at a time   *)
(* and passes its streaming callback when show_thinking is on.             *)
(***************************************************************************)
\* The streaming state of a SippyCLI after the reset of process_user_input,
\* with nothing displayed yet.
NoDisplay == [current_step |-> 0, streaming_steps |-> <<>>, panels |-> <<>>]

\* One panel printed by the callback: its title ("Step n - Thinking" or
\* "Step n - Complete") and what it shows.
StepPanel(step, kind, action, action_input, observation) ==
    [step |-> step, kind |-> kind, action |-> action,
     action_input |-> action_input, observation |-> observation]

\* SippyCLI.streaming_thinking_callback
StreamingThinkingCallback(cli, call) ==
    IF call.thought # <<>> /\ call.action # <<>>
    THEN [current_step |-> cli.current_step + 1,
          streaming_steps |->
              Append(cli.streaming_steps,
                     [step |-> cli.current_step + 1,
                      thought |-> call.thought,
                      action |-> call.action,
                      action_input |-> call.action_input,
                      observation |-> <<>>]),
          panels |->
              Append(cli.panels,
                     StepPanel(cli.current_step + 1, "Thinking", call.action,
                               call.action_input, <<>>))]
    ELSE IF call.observation # <<>> /\ cli.streaming_steps # <<>>
    THEN LET last_step == cli.streaming_steps[Len(cli.streaming_steps)]
         IN  [cli EXCEPT !.panels =
                  Append(cli.panels,
                         StepPanel(last_step.step, "Complete",
                                   last_step.action, last_step.action_input,
                                   call.observation))]
    ELSE cli

\* The streaming state after the callback calls of a turn.
RECURSIVE CliDisplay(_)
CliDisplay(calls) ==
    IF calls = <<>> THEN NoDisplay
    ELSE StreamingThinkingCallback(
             CliDisplay(SubSeq(calls, 1, Len(calls) - 1)), calls[Len(calls)])

\* A completion with an Action and an empty thought.
EmptyThoughtText ==
    <<"Thought:", "\n", "Action:", " ", "example_tool", "\n",
      "Action Input:", " ", "bye">>

\* Completions the language model may return in the runs of the CLI.
CliCompletions == Completions \cup {EmptyThoughtText}

\* process_user_input up to the first loop-head check: the streaming state
\* is reset, agent.chat resets the token counter and invokes the executor.
CliStart(input) ==
    /\ pc = "idle"
    /\ cli_pc = "idle"
    /\ user_input' = Strip(input, Whitespace)
    /\ name_to_tool_map' = NameToToolMap(tools)
    /\ streamed' = <<>>
    /\ token_counter' = TokenCounterReset
    /\ iterations' = 0
    /\ time_elapsed' = 0
    /\ clock' = 0
    /\ intermediate_steps' = <<>>
    /\ pending' = NoAction
    /\ llm_calls' = 0
    /\ completions' = <<>>
    /\ tool_calls' = <<>>
    /\ outcome' = "none"
    /\ chat_result' = NoResult
    /\ cli_pc' = "running"
    /\ pc' = "running"
    /\ UNCHANGED <<config, tools, llm_usage, original_thinking, response,
                   ws_pc, ws_original, ws_out, ws_connected, chat_history>>

\* Mutant of CliInterrupt: the interrupted turn is stored in the history.
CliInterruptStored ==
    /\ cli_pc = "running"
    /\ pc \in {"running", "tool"}
    /\ chat_history' = Append(chat_history, <<user_input, <<>>>>)
    /\ cli_pc' = "idle"
    /\ pc' = "idle"
    /\ pending' = NoAction
    /\ name_to_tool_map' = <<>>
    /\ outcome' = "interrupted"
    /\ UNCHANGED <<config, tools, llm_usage, token_counter,
                   original_thinking, iterations, time_elapsed, clock,
                   intermediate_steps, llm_calls, completions, tool_calls,
                   chat_result, response, ws_pc, ws_original, ws_out,
                   ws_connected, streamed, user_input>>

\* Ctrl-C while agent.chat runs: the KeyboardInterrupt is no Exception, so
\* it passes the except of agent.chat and process_user_input catches it
\* before the history is touched.
CliInterrupt ==
    /\ cli_pc = "running"
    /\ pc \in {"running", "tool"}
    /\ cli_pc' = "idle"
    /\ pc' = "idle"
    /\ pending' = NoAction
    /\ name_to_tool_map' = <<>>
    /\ outcome' = "interrupted"
    /\ UNCHANGED <<config, tools, llm_usage, token_counter,
                   original_thinking, iterations, time_elapsed, clock,
                   intermediate_steps, llm_calls, completions, tool_calls,
                   chat_result, response, ws_pc, ws_original, ws_out,
                   ws_connected, streamed, chat_history, user_input>>

\* The commands of process_user_input that run no turn, as typed (<<>> is
\* the empty input).
Commands ==
    { <<"help">>, <<"tools">>, <<"history">>, <<"clear">>, <<"thinking">>,
      <<>> }

\* process_user_input for a command: clear_history empties the history,
\* toggle_thinking flips show_thinking, the others only display.
CliCommand(input) ==
    /\ cli_pc = "idle"
    /\ pc = "idle"
    /\ Strip(input, Whitespace) \in Commands
    /\ user_input' = Strip(input, Whitespace)
    /\ chat_history' = IF user_input' = <<"clear">> THEN <<>>
                       ELSE chat_history
    /\ config' = IF user_input' = <<"thinking">>
                 THEN [config EXCEPT !.show_thinking = ~config.show_thinking]
                 ELSE config
    /\ UNCHANGED <<tools, llm_usage, token_counter, pc, original_thinking,
                   iterations, time_elapsed, clock, intermediate_steps,
                   pending, llm_calls, completions, tool_calls, outcome,
                   chat_result, response, ws_pc, ws_original, ws_out,
                   ws_connected, cli_pc, streamed, name_to_tool_map>>

\* The first turn of a session.
CliNext ==
    \/ chat_history = <<>> /\ CliStart(<<"q1">>)
    \/ BudgetStop
    \/ \E d \in Delays, e \in ModelErrors : PlanRaises(d, e)
    \/ \E d \in Delays, text \in CliCompletions : Plan(d, text)
    \/ \E d \in Delays : RunInvalidTool(d)
    \/ \E d \in Delays : RunTool(d)
    \/ \E name \in AddableTools :
           /\ pc = "idle"
           /\ Len(tools) < Len(CreateTools) + MaxAdded
           /\ AddTool(name)

CliSpec == Init /\ [][CliNext]_vars

(***************************************************************************)
(* A session of the command line: questions, commands and Ctrl-C.          *)
(***************************************************************************)
\* What the user types: two questions, and the commands with or without
\* white space around them.
UserInputs == { <<"q1">>, <<" ", "q2", "\n">> }

TypedCommands == Commands \cup { <<" ", "clear">> }

\* What the model returns in the turns of the session.
HistoryCompletions ==
    { ActionText("t", "example_tool", <<"hi">>), FinalText("done") }

HistoryNext ==
    \/ \E input \in UserInputs :
           Len(chat_history) < MaxHistory /\ CliStart(input)
    \/ \E input \in TypedCommands : CliCommand(input)
    \/ CliInterrupt
    \/ BudgetStop
    \/ \E e \in ModelErrors : PlanRaises(0, e)
    \/ \E text \in HistoryCompletions : Plan(0, text)
    \/ RunTool(0)

\* A session started without --verbose, with a model that reports no token
\* usage and the shortest time budget (no call takes time here).
HistoryInit ==
    /\ Init
    /\ ~config.verbose
    /\ llm_usage = 0
    /\ config.max_execution_time = 1

HistorySpec == HistoryInit /\ [][HistoryNext]_vars

(***************************************************************************)
(* Turns in which the model names an error sentinel as its tool, or        *)
(* returns text that cannot be parsed.                                     *)
(***************************************************************************)
\* What the model returns in these turns.
SentinelCompletions ==
    { ActionText("t", "Error", <<"x">>),
      ActionText("t", "example_tool", <<"hi">>),
      <<"I", " ", "am", " ", "not", " ", "sure">>,
      FinalText("done") }

SentinelNext ==
    \/ \E req \in RequestThinking : StartChat(req)
    \/ chat_history = <<>> /\ CliStart(<<"q1">>)
    \/ BudgetStop
    \/ \E text \in SentinelCompletions : Plan(0, text)
    \/ RunInvalidTool(0)
    \/ RunTool(0)

SentinelSpec == Init /\ [][SentinelNext]_vars

(***************************************************************************)
(* The registry on its own: tools are registered on an agent that runs no  *)
(* turn.                                                                   *)
(***************************************************************************)
\* Names of the tools registered after construction.
LaterTools == {"custom_tool", "other_tool"}

RegistryNext ==
    \E name \in LaterTools :
        Len(tools) < Len(CreateTools) + MaxRegistered /\ AddTool(name)

RegistrySpec == Init /\ [][RegistryNext]_vars

(***************************************************************************)
(* add_tool next to a running turn: a caller on another thread registers a *)
(* tool while the turn of a POST /chat request is under way.               *)
(***************************************************************************)
\* What the model returns in these runs.
RebuildCompletions ==
    { ActionText("t", "custom_tool", <<"x">>), FinalText("done") }

RebuildNext ==
    \/ StartChat("absent")
    \/ BudgetStop
    \/ \E text \in RebuildCompletions : Plan(0, text)
    \/ RunInvalidTool(0)
    \/ RunTool(0)
    \/ \E name \in AddableTools :
           Len(tools) < Len(CreateTools) + MaxAdded /\ AddTool(name)

RebuildSpec == Init /\ [][RebuildNext]_vars

(***************************************************************************)
(* Properties.                                                             *)
(***************************************************************************)
\* A request has been answered and no other has started.
TurnEnded == pc = "idle" /\ outcome # "none"

\* Every language-model call of the turn returned a parse-able Action.
EveryCallReturnedAction ==
    /\ llm_calls = Len(completions)
    /\ \A i \in 1..Len(completions) :
           ParseOutput(completions[i]).kind = "action"

\* C1: in every turn, whatever the language model and the tools do, the
\* number of Steps never exceeds the configured max_iterations: neither the
\* executor's intermediate steps, nor the thinking_steps that agent.chat
\* returns, nor the thinking_steps of the ChatResponse.
C1_StepsWithinIterationBudget ==
    /\ Len(intermediate_steps) <= config.max_iterations
    /\ chat_result.thinking_steps.some =>
           Len(chat_result.thinking_steps.val) <= config.max_iterations
    /\ response.thinking_steps.some =>
           Len(response.thinking_steps.val) <= config.max_iterations

\* C1 witness: a turn that used its whole budget of two or more iterations
\* and handed every Step to the caller.
C1_Witness ==
    /\ TurnEnded
    /\ config.max_iterations >= 2
    /\ Len(intermediate_steps) = config.max_iterations
    /\ response.thinking_steps.some
    /\ Len(response.thinking_steps.val) = config.max_iterations

\* C2 (the claim's case N = 1): with an iteration budget of 1 and a model that
\* returns an Action on every call, the turn ends after exactly one
\* dispatched action with the answer of budget exhaustion.
C2_AlwaysActionEndsAtBudgetOne ==
    (TurnEnded /\ config.max_iterations = 1 /\ EveryCallReturnedAction)
        => (outcome = "stopped" /\ Len(completions) = 1)

C4_NoRepeatedExecutorCall ==
    \A i, j \in 1..Len(tool_calls) :
        i # j => tool_calls[i] # tool_calls[j]

\* C5: a tool executor that raises never ends the turn: no turn ends with
\* the error response of a tool failure.
C5_ToolFailureNeverEndsTurn == ~(TurnEnded /\ outcome = "tool_error")

\* C6: a failed language-model call is not retried (it is the last call of
\* the turn), the turn ends with an error response whose text holds the
\* exception's message, the endpoint passes that text on, and the response
\* records no Steps (in particular when the first call fails).
C6_ModelFailureEndsTurn ==
    (TurnEnded /\ outcome = "model_error") =>
        /\ llm_calls = Len(completions) + 1
        /\ \E e \in ModelErrors :
               chat_result.output =
                   <<"I encountered an error while processing your request: ">>
                   \o e
        /\ response.response = chat_result.output
        /\ chat_result.thinking_steps.some =>
               Len(chat_result.thinking_steps.val) = 0
        /\ response.thinking_steps.some =>
               Len(response.thinking_steps.val) = 0
        /\ llm_calls = 1 => Len(intermediate_steps) = 0

\* C6 witness: the first language-model call of a turn failed, in
\* structured (thinking) mode.
C6_Witness ==
    /\ TurnEnded
    /\ outcome = "model_error"
    /\ llm_calls = 1
    /\ response.thinking_steps.some

\* C7: only budget exhaustion and model failure end a turn without a Final
\* Answer; tool-level errors are absorbed as observations.
C7_OnlyBudgetOrModelFailureEndEarly ==
    (TurnEnded /\ outcome # "final") => outcome \in {"stopped", "model_error"}

\* C8: the error field of the ChatResponse tells the three outcomes apart.
\* A normally answered turn has error unset, so a turn answered after budget
\* exhaustion and a turn that failed outright must each have it set.
C8_ErrorFieldDistinguishesOutcomes ==
    (TurnEnded /\ outcome \in {"stopped", "model_error"}) => response.error.some

\* The input the claim expects for the raw Action Input y: y without quotes.
ExpectedInput(y) == SelectSeq(y, LAMBDA tok : tok # "\"")

\* C9: for a completion "Action: X / Action Input: Y" with X registered,
\* dispatch invokes exactly tool X, exactly once, with the input derived from
\* Y, and nothing else: the model call itself invokes no executor, and the
\* dispatch that follows adds that one call.
C9_DispatchInvokesNamedTool ==
    [][ /\ pc = "running" => tool_calls' = tool_calls
        /\ \A x \in ToolNames(tools) :
           \A y \in {<<"hi">>, <<"\"", "123", "\"">>, <<"x">>} :
               (pc = "tool" /\ pending.log = ActionText("t", x, y))
                   => tool_calls' =
                          Append(tool_calls,
                                 [tool |-> x, tool_input |-> ExpectedInput(y)])
      ]_vars

\* C9 witness: the quoted input of get_prow_job_summary has been dispatched
\* after an earlier call of another tool.
C9_Witness ==
    /\ Len(tool_calls) = 2
    /\ tool_calls[1].tool = "example_tool"
    /\ tool_calls[2] = [tool |-> "get_prow_job_summary", tool_input |-> <<"123">>]
    /\ Len(intermediate_steps) = 2

\* C10: the model first returns the Action on the echo tool (example_tool)
\* with input hi and then "Final Answer: done": the turn has exactly one
\* Step, {example_tool, hi, "Echo: hi"}, and the final answer is "done".
C10_EchoScenario ==
    (/\ TurnEnded
     /\ llm_calls = 2
     /\ completions = << ActionText("t", "example_tool", <<"hi">>),
                         FinalText("done") >>)
    => /\ outcome = "final"
       /\ chat_result.output = <<"done">>
       /\ tool_calls = << [tool |-> "example_tool", tool_input |-> <<"hi">>] >>
       /\ Len(intermediate_steps) = 1
       /\ intermediate_steps[1].tool = <<"example_tool">>
       /\ intermediate_steps[1].tool_input = <<"hi">>
       /\ intermediate_steps[1].observation = <<"Echo: ", "hi">>
       /\ chat_result.thinking_steps.some =>
              chat_result.thinking_steps.val =
                  << [thought |-> <<"t">>,
                      action |-> <<"example_tool">>,
                      action_input |-> <<"hi">>,
                      observation |-> <<"Echo: ", "hi">>] >>

\* C10 witness: the scenario has run in thinking mode.
C10_Witness ==
    /\ TurnEnded
    /\ completions = << ActionText("t", "example_tool", <<"hi">>),
                        FinalText("done") >>
    /\ chat_result.thinking_steps.some
    /\ Len(chat_result.thinking_steps.val) = 1

\* C11: when the model names a tool that is not registered, the step that
\* answers it runs no executor, consumes one iteration, records one step
\* whose observation names the invalid tool and lists the registered names,
\* and hands control back to the loop head (the turn goes on).
C11_UnknownToolBecomesObservation ==
    [][ (/\ pc = "tool"
         /\ pending.tool \notin { <<n>> : n \in ToolNames(tools) })
        => /\ tool_calls' = tool_calls
           /\ iterations' = iterations + 1
           /\ pc' = "running"
           /\ outcome' = "none"
           /\ Len(intermediate_steps') = Len(intermediate_steps) + 1
           /\ LET step == intermediate_steps'[Len(intermediate_steps')]
              IN  /\ step.tool = pending.tool
                  /\ step.observation =
                         pending.tool
                         \o <<" is not a valid tool, try one of ">>
                         \o tools
      ]_vars

\* C11 witness: custom_tool was requested before it was registered, no
\* executor ran, and the model was called again.
C11_Witness ==
    /\ Len(intermediate_steps) >= 1
    /\ intermediate_steps[1].tool = <<"custom_tool">>
    /\ intermediate_steps[1].observation =
           <<"custom_tool", " is not a valid tool, try one of ">> \o CreateTools
    /\ tool_calls = <<>>
    /\ iterations >= 1
    /\ llm_calls = 2

\* A completion that holds neither "Action:" nor "Final Answer:".
Malformed(text) ==
    ~Contains(text, "Action:") /\ ~Contains(text, "Final Answer:")

\* Every completion of the turn so far was malformed.
OnlyMalformed ==
    \A i \in 1..Len(completions) : Malformed(completions[i])

\* C12: a model call that returns a text with neither marker runs no tool,
\* records one step of the exception tool whose observation is the parse
\* error text, consumes one iteration and returns to the loop head; and a
\* turn whose completions were all malformed has made at most max_iterations
\* model calls, the loop head ending it with the stopping answer once the
\* iterations are used up.
C12_MalformedTextBecomesObservation ==
    [][ /\ (/\ pc = "running"
            /\ Len(completions') = Len(completions) + 1
            /\ Malformed(completions'[Len(completions')]))
           => /\ iterations' = iterations + 1
              /\ pc' = "running"
              /\ outcome' = "none"
              /\ tool_calls' = tool_calls
              /\ Len(intermediate_steps') = Len(intermediate_steps) + 1
              /\ LET step == intermediate_steps'[Len(intermediate_steps')]
                 IN  /\ step.tool = <<"_Exception">>
                     /\ step.observation =
                            <<"Invalid Format: Missing 'Action:' after 'Thought:'">>
        /\ (pc = "running" /\ OnlyMalformed /\ llm_calls = Len(completions))
           => /\ Len(completions) <= config.max_iterations
              /\ iterations = Len(completions)
              /\ Len(completions) = config.max_iterations
                     => (pc' = "idle" /\ outcome' = "stopped")
      ]_vars

\* C12 witness: a turn of two iterations in which both completions were
\* malformed ended with the stopping answer.
C12_Witness ==
    /\ TurnEnded
    /\ outcome = "stopped"
    /\ config.max_iterations = 2
    /\ Len(completions) = 2
    /\ OnlyMalformed
    /\ Len(intermediate_steps) = 2
    /\ chat_result.output = StoppedOutput

\* The number of times tok occurs in s.
Count(s, tok) == Cardinality({ i \in 1..Len(s) : s[i] = tok })

\* C13: a completion that holds one "Final Answer:" marker and no "Action:"
\* marker is parsed as a final answer whose text is the text after the
\* marker without the white space around it.
C13_FinalAnswerIsTrailingTextTrimmed ==
    LET text == completions[1]
        rest == From(text, Find(text, "Final Answer:", 1) + 1)
    IN  (/\ pc = "parsed"
         /\ Count(text, "Final Answer:") = 1
         /\ ~Contains(text, "Action:"))
        => /\ pending.kind = "finish"
           /\ pending.output = Strip(rest, Whitespace)
           /\ pending.output = <<>> \/
                  /\ Head(pending.output) \notin Whitespace
                  /\ pending.output[Len(pending.output)] \notin Whitespace

\* C13 witness: a final answer with white space on both sides, after a
\* thought, has been parsed.
C13_Witness ==
    /\ pc = "parsed"
    /\ completions[1] = <<"Thought:", "Final Answer:", " ", "a", "\n">>
    /\ pending.kind = "finish"
    /\ pending.output = <<"a">>

\* C14: a completion that holds both an Action block ("Action:" followed by
\* "Action Input:") and a "Final Answer:" marker is parsed as a final answer.
C14_FinalAnswerWinsOverAction ==
    (/\ pc = "parsed"
     /\ ActionInputStart(completions[1]) # 0
     /\ Contains(completions[1], "Final Answer:"))
    => pending.kind = "finish"

\* Every step of the turn came from the executor of a registered tool.
OnlyToolSteps ==
    /\ Len(tool_calls) = Len(intermediate_steps)
    /\ \A i \in 1..Len(intermediate_steps) :
           intermediate_steps[i].tool = <<tool_calls[i].tool>>

\* C15: a turn answered in thinking mode hands the caller the answer text
\* with every Step accumulated before it, in execution order.  Stated for
\* the turns whose steps all are tool calls that ran: each of them is a Step
\* of the result of agent.chat, at its place.
C15_FinalAnswerReturnsEveryStep ==
    (/\ TurnEnded
     /\ outcome = "final"
     /\ chat_result.thinking_steps.some
     /\ OnlyToolSteps)
    => /\ chat_result.output =
              ParseOutput(completions[Len(completions)]).output
       /\ Len(chat_result.thinking_steps.val) = Len(intermediate_steps)
       /\ \A i \in 1..Len(intermediate_steps) :
              /\ chat_result.thinking_steps.val[i].action =
                     intermediate_steps[i].tool
              /\ chat_result.thinking_steps.val[i].observation =
                     intermediate_steps[i].observation

\* C16: after any sequence of registrations the registry holds at most one
\* tool per name (a registration under a name that exists is refused).
C16_AtMostOneToolPerName ==
    \A i, j \in 1..Len(tools) : i # j => tools[i] # tools[j]

\* C17: list gives the tools in registration order: the tools created at
\* construction, in construction order, then every added tool in the order
\* it was added (a registration puts the new tool last and moves no other).
C17_ListInRegistrationOrder ==
    [][ /\ SubSeq(ListTools(tools), 1, Len(CreateTools)) = CreateTools
        /\ tools' # tools =>
               /\ Len(ListTools(tools')) = Len(ListTools(tools)) + 1
               /\ SubSeq(ListTools(tools'), 1, Len(tools)) = ListTools(tools)
               /\ ListTools(tools')[Len(tools')] \in LaterTools
      ]_vars

\* C17 witness: other_tool was added, then custom_tool.
C17_Witness ==
    ListTools(tools) = CreateTools \o <<"other_tool", "custom_tool">>

\* C18: turns are independent of one another.  On a server started without
\* thinking, a POST /chat request that leaves show_thinking out is answered
\* as it would be alone, without thinking steps, whatever other turn is
\* under way on the same agent.
C18_TurnAnsweredAsIfAlone ==
    (TurnEnded /\ ws_pc # "running" /\ response # NoResponse)
        => ~response.thinking_steps.some

\* C19: once the caller of a turn has gone away the loop makes no further
\* language-model call, records no further step and produces no answer for
\* that turn.
C19_CancelledTurnStops ==
    [][ (ws_pc = "running" /\ ~ws_connected)
        => /\ llm_calls' = llm_calls
           /\ intermediate_steps' = intermediate_steps
           /\ chat_result' = chat_result
      ]_vars

\* The callback call that carries the action of a step.
ActionCall(step) ==
    [thought |-> ExtractThought(step.log), action |-> step.tool,
     action_input |-> step.tool_input, observation |-> <<>>]

\* The callback call that carries an observation.
ObservationCall(observation) ==
    [thought |-> <<>>, action |-> <<>>, action_input |-> <<>>,
     observation |-> observation]

\* The callback calls that completed steps account for: for each step that
\* is not a parse error, one call with its action and, unless the
\* observation holds "Invalid", "Error" or "_Exception", one call with its
\* observation.
RECURSIVE CallsOfSteps(_)
CallsOfSteps(steps) ==
    IF steps = <<>> THEN <<>>
    ELSE LET step == Head(steps)
         IN  (IF step.tool \in ErrorSentinels THEN <<>>
              ELSE <<ActionCall(step)>>)
             \o (IF HoldsErrorWord(step.observation) THEN <<>>
                 ELSE <<ObservationCall(step.observation)>>)
             \o CallsOfSteps(Tail(steps))

\* C20 as claimed: in streaming mode a turn with k completed Steps has
\* invoked the callback exactly k times, each call carrying the thought,
\* action, input and observation of one Step.  Stated for the turns whose
\* steps all are tool calls that returned.
C20_OneCallbackPerStep ==
    (TurnEnded /\ config.show_thinking /\ OnlyToolSteps
               /\ outcome # "tool_error")
        => /\ Len(streamed) = Len(intermediate_steps)
           /\ \A i \in 1..Len(streamed) :
                  /\ streamed[i].action = intermediate_steps[i].tool
                  /\ streamed[i].observation = intermediate_steps[i].observation

\* C20 as amended: in streaming mode the callback is invoked with the
\* thought, action and input of a step (and no observation) when the action
\* is chosen, before its tool runs, and once more with the observation alone
\* when the tool has returned, unless the output holds "Invalid", "Error"
\* or "_Exception"; a parse-error step invokes it not at all.  No call
\* carries both an action and an observation, and a turn with k completed
\* steps has invoked it at most 2k times (one more for a tool that raised).
\* Without streaming the callback is never invoked.
C20_CallbackPerActionAndPerObservation ==
    /\ ~config.show_thinking => streamed = <<>>
    /\ config.show_thinking =>
           /\ streamed =
                  CallsOfSteps(intermediate_steps)
                  \o (IF pc = "tool" THEN <<ActionCall(pending)>>
                      ELSE IF outcome = "tool_error"
                      THEN <<ActionCall(
                               [log |-> completions[Len(completions)],
                                tool |-> <<tool_calls[Len(tool_calls)].tool>>,
                                tool_input |->
                                    tool_calls[Len(tool_calls)].tool_input])>>
                      ELSE <<>>)
           /\ \A i \in 1..Len(streamed) :
                  streamed[i].action = <<>> \/ streamed[i].observation = <<>>
           /\ Len(streamed) <= 2 * Len(intermediate_steps) + 1

\* C20 witness: a streamed turn of two completed steps ended with three
\* callback calls: action and observation of example_tool, and the action
\* of a tool whose output held "Error".
C20_Witness ==
    /\ TurnEnded
    /\ config.show_thinking
    /\ Len(intermediate_steps) = 2
    /\ Len(streamed) = 3
    /\ streamed[1].action = <<"example_tool">>
    /\ streamed[2].observation = <<"Echo: ", "hi">>
    /\ streamed[3].action = <<"get_prow_job_summary">>

\* The (action, input, observation) of a step.
StepTriple(action, action_input, observation) ==
    [action |-> action, action_input |-> action_input,
     observation |-> observation]

\* The steps that a sequence of callback calls delivers: a call with an
\* action opens a step, a call with an observation completes the last step
\* opened.
RECURSIVE StepsOfCalls(_)
StepsOfCalls(calls) ==
    IF calls = <<>> THEN <<>>
    ELSE LET before == StepsOfCalls(SubSeq(calls, 1, Len(calls) - 1))
             call == calls[Len(calls)]
         IN  IF call.action # <<>>
             THEN Append(before,
                         StepTriple(call.action, call.action_input, <<>>))
             ELSE IF before = <<>> THEN before
             ELSE [before EXCEPT ![Len(before)].observation = call.observation]

\* The (action, input, observation) of the thinking_steps of a result.
TriplesOfSteps(thinking_steps) ==
    [i \in 1..Len(thinking_steps) |->
        StepTriple(thinking_steps[i].action, thinking_steps[i].action_input,
                   thinking_steps[i].observation)]

\* C21: the streaming path and the buffered path agree: at the end of every
\* streamed turn the steps (action, input, observation) delivered through
\* the thinking callback are the thinking_steps that agent.chat returns for
\* that turn, in the same order.  Stated for the turns in which no tool
\* raised.
C21_StreamedEqualsBuffered ==
    (/\ TurnEnded
     /\ config.show_thinking
     /\ chat_result.thinking_steps.some
     /\ outcome # "tool_error")
        => StepsOfCalls(streamed) =
               TriplesOfSteps(chat_result.thinking_steps.val)

\* The place in `executed`, after place `from`, of the first step with the
\* action, input and observation of `step`; 0 when there is none.
PlaceOf(step, executed, from) ==
    IF \E k \in (from + 1)..Len(executed) :
           /\ executed[k].tool = step.action
           /\ executed[k].tool_input = step.action_input
           /\ executed[k].observation = step.observation
    THEN CHOOSE k \in (from + 1)..Len(executed) :
           /\ executed[k].tool = step.action
           /\ executed[k].tool_input = step.action_input
           /\ executed[k].observation = step.observation
           /\ \A j \in (from + 1)..(k - 1) :
                  \/ executed[j].tool # step.action
                  \/ executed[j].tool_input # step.action_input
                  \/ executed[j].observation # step.observation
    ELSE 0

\* The steps of `handed` are steps of `executed`, in the order of `executed`.
RECURSIVE InOrderOf(_, _, _)
InOrderOf(handed, executed, from) ==
    \/ handed = <<>>
    \/ /\ PlaceOf(Head(handed), executed, from) # 0
       /\ InOrderOf(Tail(handed), executed,
                    PlaceOf(Head(handed), executed, from))

\* C22: steps are ordered by completion and the trace keeps that order.  A
\* language-model call is made only at the loop head, when every action
\* dispatched so far has its observation recorded; one step is recorded at
\* a time, at the end of the steps so far; one executor runs at a time; and
\* the steps handed to the caller are numbered 1..n and are steps of the
\* turn in the order in which they were executed.
C22_StepsInExecutionOrder ==
    [][ /\ llm_calls' = llm_calls + 1 =>
               /\ pc = "running"
               /\ pending = NoAction
               /\ iterations = Len(intermediate_steps)
        /\ (pc # "idle" /\ intermediate_steps' # intermediate_steps) =>
               /\ Len(intermediate_steps') = Len(intermediate_steps) + 1
               /\ SubSeq(intermediate_steps', 1, Len(intermediate_steps)) =
                      intermediate_steps
        /\ tool_calls' # tool_calls /\ pc # "idle" =>
               /\ pc = "tool"
               /\ tool_calls' = Append(tool_calls, Dispatch(pending))
        /\ response'.thinking_steps.some =>
               /\ \A i \in 1..Len(response'.thinking_steps.val) :
                      response'.thinking_steps.val[i].step_number = i
               /\ InOrderOf(response'.thinking_steps.val,
                            intermediate_steps', 0)
      ]_vars

\* C22 witness: a turn of two different steps was answered with both, the
\* echo first.
C22_Witness ==
    /\ TurnEnded
    /\ response.thinking_steps.some
    /\ Len(response.thinking_steps.val) = 2
    /\ Len(intermediate_steps) = 2
    /\ response.thinking_steps.val[1].action = <<"example_tool">>
    /\ response.thinking_steps.val[2].action = <<"custom_tool">>
    /\ response.thinking_steps.val[2].step_number = 2

C24_ThoughtNeverEmpty ==
    (pc = "parsed" /\ pending.kind = "action")
        => ExtractThought(pending.log) # <<>>

\* C25: the show_thinking override of a request is always undone.  On a
\* server started without thinking: when no request is under way
\* config.show_thinking is off again, and the turn of a POST /chat request
\* that leaves show_thinking out runs with it off.
C25_OverrideAlwaysUndone ==
    /\ (pc = "idle" /\ ws_pc = "idle") => ~config.show_thinking
    /\ (pc # "idle" /\ ws_pc # "running") => ~config.show_thinking

\* The panels displayed in the streamed turn.
Panels == CliDisplay(streamed).panels

\* C26, first part: when the final answer of a streamed turn is shown, every
\* step displayed as it started ("Thinking") has been displayed again with
\* its observation ("Complete").  Stated for the turns in which no tool
\* raised.
C26_EveryStreamedStepGetsItsObservation ==
    (TurnEnded /\ config.show_thinking /\ outcome # "tool_error")
        => \A i \in 1..Len(Panels) :
               Panels[i].kind = "Thinking"
                   => \E j \in (i + 1)..Len(Panels) :
                          /\ Panels[j].kind = "Complete"
                          /\ Panels[j].step = Panels[i].step

\* C26, second part: an observation is displayed on the step whose action
\* produced it: every "Complete" panel shows the action, the input and the
\* observation of one executed step.
C26_ObservationOnItsOwnStep ==
    config.show_thinking
        => \A i \in 1..Len(Panels) :
               Panels[i].kind = "Complete"
                   => \E k \in 1..Len(intermediate_steps) :
                          /\ intermediate_steps[k].tool = Panels[i].action
                          /\ intermediate_steps[k].tool_input =
                                 Panels[i].action_input
                          /\ intermediate_steps[k].observation =
                                 Panels[i].observation

\* C26: both parts.
C26_StreamedStepsShowTheirObservations ==
    C26_EveryStreamedStepGetsItsObservation /\ C26_ObservationOnItsOwnStep

\* The messages that end the answer to a WebSocket message.
Terminal == {"final_response", "error"}

\* C27: every message received on /chat/stream is answered by exactly one
\* terminal message, sent last, after the thinking_step messages of the
\* request with step_number 1..n in order; the handler never ends on a
\* received message without having sent its terminal message.
C27_EveryMessageGetsOneTerminalMessage ==
    /\ ws_pc = "sending" =>
           /\ ws_out # <<>>
           /\ ws_out[Len(ws_out)].type \in Terminal
           /\ \A i \in 1..(Len(ws_out) - 1) :
                  /\ ws_out[i].type = "thinking_step"
                  /\ ws_out[i].data.step_number = i
    /\ ws_pc = "failed" =>
           \E i \in 1..Len(ws_out) : ws_out[i].type \in Terminal

\* C28: for every turn that completes without an exception, the /chat
\* endpoint answers with the output text of the agent in `response` and
\* with `error` unset, whatever show_thinking and verbose are and whether or
\* not token usage was counted.
C28_CompletedTurnAnsweredWithOutput ==
    (TurnEnded /\ outcome \in {"final", "stopped"})
        => /\ response.response = chat_result.output
           /\ ~response.error.some

\* C29: chat_history is the sequence of (user input, final output) pairs of
\* the turns that completed since the last clear, in order.  Each step of a
\* session keeps it so: a command leaves it unchanged, except clear, which
\* empties it; the start and the steps of a turn leave it unchanged; a turn
\* that completes appends the pair of its input and its final output; a
\* turn that is interrupted appends nothing.
C29_HistoryIsCompletedTurnsSinceClear ==
    [][ /\ (cli_pc = "idle" /\ cli_pc' = "idle") =>
               chat_history' = IF user_input' = <<"clear">> THEN <<>>
                               ELSE chat_history
        /\ cli_pc' = "running" => chat_history' = chat_history
        /\ (cli_pc = "running" /\ cli_pc' = "idle") =>
               chat_history' =
                   IF outcome' = "interrupted" THEN chat_history
                   ELSE Append(chat_history,
                               <<user_input, chat_result'.output>>)
      ]_vars

\* C29 witness: q1 was answered with "done", then q2 was interrupted: the
\* history holds the first turn alone.
C29_Witness ==
    /\ cli_pc = "idle"
    /\ outcome = "interrupted"
    /\ user_input = <<"q2">>
    /\ llm_calls >= 1
    /\ chat_history = << <<<<"q1">>, <<"done">>>> >>

\* The actions of a sequence of steps.
ActionsOf(steps) == { steps[i].action : i \in 1..Len(steps) }

\* C30: the error sentinels never reach the caller as actions.  No step of
\* the thinking_steps that agent.chat returns, no step of the ChatResponse
\* and no call of the streaming callback has "_Exception", "Invalid" or
\* "Error" as its action; tools_used holds none of them and only names that
\* are the action of a returned step (tools_used is a set: no name is in it
\* twice).
C30_SentinelsNeverReachCaller ==
    LET sentinels == {<<"_Exception">>, <<"Invalid">>, <<"Error">>}
    IN  /\ chat_result.thinking_steps.some =>
               ActionsOf(chat_result.thinking_steps.val) \cap sentinels = {}
        /\ response.thinking_steps.some =>
               ActionsOf(response.thinking_steps.val) \cap sentinels = {}
        /\ response.tools_used.some =>
               /\ response.tools_used.val \cap sentinels = {}
               /\ response.tools_used.val
                      \subseteq ActionsOf(response.thinking_steps.val)
        /\ ActionsOf(streamed) \cap sentinels = {}

\* C30 witness: a turn whose first step named "Error" as its tool and whose
\* second step ran example_tool was answered with the second step alone.
C30_Witness ==
    /\ TurnEnded
    /\ Len(intermediate_steps) = 2
    /\ intermediate_steps[1].tool = <<"Error">>
    /\ response.thinking_steps.some
    /\ Len(response.thinking_steps.val) = 1
    /\ response.tools_used.val = {<<"example_tool">>}

====
